---- MODULE Spec2Model ----
(***************************************************************************)
(* Model of the GraphView component (src/components/FilmCard.tsx): the     *)
(* graph builder, the force simulation run once per animation frame, the   *)
(* animation-frame loop and the pointer handlers.                          *)
(*                                                                         *)
(* Lengths are fixed-point integers: one unit is 1/Scale of a CSS pixel.   *)
(* Node objects live in a heap indexed by object identity <<gen, index>>,  *)
(* because the code compares nodes both by reference (a === dragging) and  *)
(* by id (n.id === hoveredNode?.id), and a rebuild allocates new objects   *)
(* while draggingRef / hoveredNode may still hold the old ones.            *)
(***************************************************************************)
EXTENDS Integers, Sequences, FiniteSets, TLC

VARIABLES
    mounted,      \* the GraphView instance exists in the page
    films,        \* the films prop of the current render
    heap,         \* object identity -> Node record (the live Node objects)
    nodesRef,     \* nodesRef.current: sequence of object identities
    linksRef,     \* linksRef.current: sequence of Link records
    built,        \* history: which build produced nodesRef / linksRef
    gen,          \* number of build passes that allocated objects so far
    draggingRef,  \* draggingRef.current: object identity or NullRef
    hoveredNode,  \* hoveredNode state: object identity or NullRef
    requestRef,   \* requestRef.current: last frame-request handle (0 = undefined)
    pending,      \* frame requests the host still has to call back
    canvas,       \* backing-store size and CSS size of the <canvas>
    container,    \* CSS size of the container <div>
    pointerOver,  \* environment: the pointer is over the canvas
    buildError,   \* the last build pass raised a TypeError
    frames,       \* number of animation callbacks so far
    frame,        \* history: what the last animation callback read and did
    event,        \* history: the last step, if a pointer event or a simulation step
    location,     \* the route of the page: << >> or <<"film", id>>
    activeTab,    \* Dashboard: the selected tab
    viewMode,     \* Dashboard: "grid" or "graph"
    sort,         \* Dashboard: the selected sort order
    searchFilters,\* Dashboard: the title typed into the search form
    page,         \* Dashboard: the page the next load-more asks for
    dashFilms,    \* Dashboard: the films state, one entry per page received
    hasMore,      \* Dashboard: the last page received was full
    loading,      \* Dashboard: the loading flag
    inflight,     \* film requests sent and not yet answered: indices of issued
    issued,       \* history: every film request sent, with its outcome
    apiKey,       \* environment: process.env.API_KEY is set
    aiInsight,    \* per card / details page: the insight text or NoInsight
    loadingAi,    \* per card / details page: the loadingAi flag
    aiCall        \* per card / details page: "none", "pending" or "rejected"

\* state of the Dashboard page and of the insight buttons
dashVars == << activeTab, viewMode, sort, searchFilters, page, dashFilms, hasMore,
               loading, inflight, issued >>
aiVars == << apiKey, aiInsight, loadingAi, aiCall >>

\* state of the GraphView component
graphVars == << mounted, films, heap, nodesRef, linksRef, built, gen, draggingRef,
                hoveredNode, requestRef, pending, canvas, container, pointerOver,
                buildError, frames, frame, location >>

vars == << mounted, films, heap, nodesRef, linksRef, built, gen, draggingRef,
           hoveredNode, requestRef, pending, canvas, container, pointerOver,
           buildError, frames, frame, event, location, dashVars, aiVars >>

----------------------------------------------------------------------------
(* Bounds of the model *)

MaxFrames == 2
MaxBuilds == 2

\* film requests the Dashboard sends in one run
MaxRequests == 3

\* resolution of the fixed-point arithmetic: units per CSS pixel
Scale == 10

\* window.devicePixelRatio of the host
DevicePixelRatio == 2

----------------------------------------------------------------------------
(* Program constants *)

repulsion == 1500
springLength == 100
kPercent == 8
dampingPercent == 85
centerForcePercent == 3
maxVelocity == 15
hoverDampingPercent == 10
repulsionCutoff == 300
boundaryPadding == 10
hitPadding == 10

NullRef == << >>

----------------------------------------------------------------------------
(* Arithmetic helpers: JavaScript numbers are modelled as fixed-point       *)
(* integers, products are formed before the (truncating) division.         *)

Abs(a) == IF a < 0 THEN -a ELSE a

\* division truncating toward zero, b > 0
Div(a, b) == IF a >= 0 THEN a \div b ELSE -((-a) \div b)

RECURSIVE SqrtIter(_, _, _)
SqrtIter(n, lo, hi) ==
    IF lo >= hi THEN lo
    ELSE LET mid == (lo + hi + 1) \div 2
         IN  IF mid * mid <= n THEN SqrtIter(n, mid, hi)
                               ELSE SqrtIter(n, lo, mid - 1)

\* Math.sqrt on a non-negative fixed-point square (floor)
ISqrt(n) == SqrtIter(n, 0, IF n < 46340 THEN n ELSE 46340)

\* Math.sqrt(a*a + b*b); large operands are scaled down first, by the
\* smallest factor that keeps the squares inside the integer range of the
\* checker, so that the result keeps four significant digits
Norm(a, b) ==
    LET m == IF Abs(a) > Abs(b) THEN Abs(a) ELSE Abs(b)
        f == IF m <= 30000 THEN 1 ELSE (m \div 30000) + 1
    IN  f * ISqrt(Div(a, f) * Div(a, f) + Div(b, f) * Div(b, f))

----------------------------------------------------------------------------
(* Inputs: Film records as the hosting page supplies them.  A list the     *)
(* server left out arrives as undefined/null: present = FALSE.             *)

Some(items) == [present |-> TRUE, items |-> items]
Missing == [present |-> FALSE, items |-> << >>]

FilmA == [id |-> 1, title |-> "A", rating |-> 8,
          genres |-> Some(<<"Drama">>), directors |-> Some(<<"X", "Z">>)]
FilmB == [id |-> 2, title |-> "B", rating |-> 5,
          genres |-> Some(<<"Drama", "Drama">>), directors |-> Some(<< >>)]
FilmC == [id |-> 3, title |-> "C", rating |-> 0,
          genres |-> Missing, directors |-> Some(<<"X">>)]
FilmD == [id |-> 4, title |-> "D", rating |-> 7,
          genres |-> Some(<< >>), directors |-> Missing]

FilmLists == { <<FilmA>>, <<FilmB>>, <<FilmC>>, <<FilmD>> }

\* layouts drawn for the offsets (Math.random() - 0.5) * 200 of the centred
\* placement of n nodes: all on the centre, or 50 px apart along x
Placements(n) == { [i \in 1..n |-> <<0, 0>>],
                   [i \in 1..n |-> <<(i - 1) * 50 * Scale, 0>>] }

\* CSS sizes the container <div> takes (its height is fixed by h-[600px])
ContainerSizes == { [w |-> 400, h |-> 600] }

\* HTML default size of a <canvas> before the resize observer has fired
DefaultCanvas == [w |-> 300, h |-> 150, cssW |-> 300, cssH |-> 150]

\* surface-local pointer positions
MousePoints == { [x |-> 250 * Scale, y |-> 300 * Scale],
                 [x |-> 0, y |-> 300 * Scale] }

----------------------------------------------------------------------------
(* Graph builder: the [films] effect                                       *)

baseRadius == 5
ratingTenths == 8
genreRadius == 7
directorRadius == 6

FilmNodeId(film) == <<"f", ToString(film.id)>>
GenreNodeId(g) == <<"g", g>>
DirectorNodeId(d) == <<"d", d>>

\* mutant: every film node gets the base radius, whatever its rating
NodeRadiusFlat(type, data) ==
    IF type = "genre" THEN genreRadius * Scale
    ELSE IF type = "director" THEN directorRadius * Scale
    ELSE baseRadius * Scale

\* radius and colour chosen by addNode; data is << >> (undefined) or <<film>>
NodeRadius(type, data) ==
    IF type = "film"
    THEN baseRadius * Scale
         + Div((IF data = << >> THEN 0 ELSE data[1].rating) * ratingTenths * Scale, 10)
    ELSE IF type = "genre" THEN genreRadius * Scale
    ELSE IF type = "director" THEN directorRadius * Scale
    ELSE baseRadius * Scale

NodeColor(type) ==
    IF type = "film" THEN "#0ea5e9"
    ELSE IF type = "genre" THEN "#ec4899"
    ELSE IF type = "director" THEN "#fbbf24"
    ELSE "#fff"

EmptyBuild == [nodes |-> << >>, links |-> << >>, nodeMap |-> {}, threw |-> FALSE]

\* mutant: addNode without the nodeMap.has(id) test
AddNodeAlways(b, id, type, label, data) ==
    [b EXCEPT !.nodeMap = @ \cup {id},
              !.nodes = Append(@, [id |-> id, type |-> type, label |-> label,
                                   radius |-> NodeRadius(type, data),
                                   color |-> NodeColor(type), data |-> data])]

\* mutant: director nodes are never created
AddNodeNoDirector(b, id, type, label, data) ==
    IF id \in b.nodeMap \/ type = "director" THEN b
    ELSE [b EXCEPT !.nodeMap = @ \cup {id},
                   !.nodes = Append(@, [id |-> id, type |-> type, label |-> label,
                                        radius |-> NodeRadius(type, data),
                                        color |-> NodeColor(type), data |-> data])]

AddNode(b, id, type, label, data) ==
    IF id \in b.nodeMap THEN b
    ELSE [b EXCEPT !.nodeMap = @ \cup {id},
                   !.nodes = Append(@, [id |-> id, type |-> type, label |-> label,
                                        radius |-> NodeRadius(type, data),
                                        color |-> NodeColor(type), data |-> data])]

\* mutant: an edge already in the list is not appended again
PushLinkOnce(b, s, t) ==
    IF \E i \in 1..Len(b.links) : b.links[i] = [source |-> s, target |-> t]
    THEN b
    ELSE [b EXCEPT !.links = Append(@, [source |-> s, target |-> t])]

PushLink(b, s, t) == [b EXCEPT !.links = Append(@, [source |-> s, target |-> t])]

\* film.genres.forEach(g => { addNode(...); links.push(...) }), from entry i on
RECURSIVE LinkGenres(_, _, _, _)
LinkGenres(b, filmId, gs, i) ==
    IF i > Len(gs) THEN b
    ELSE LinkGenres(PushLink(AddNode(b, GenreNodeId(gs[i]), "genre", gs[i], << >>),
                             filmId, GenreNodeId(gs[i])),
                    filmId, gs, i + 1)

\* mutant: the film is linked to its last director
LinkLastDirector(b, filmId, ds) ==
    IF Len(ds) > 0
    THEN PushLink(AddNode(b, DirectorNodeId(ds[Len(ds)]), "director", ds[Len(ds)], << >>),
                  filmId, DirectorNodeId(ds[Len(ds)]))
    ELSE b

\* if (film.directors.length > 0) { first director only }
LinkDirector(b, filmId, ds) ==
    IF Len(ds) > 0
    THEN PushLink(AddNode(b, DirectorNodeId(ds[1]), "director", ds[1], << >>),
                  filmId, DirectorNodeId(ds[1]))
    ELSE b

\* mutant: the director of a film is visited before its genres
BuildFilmDirectorFirst(b, film) ==
    LET b1 == AddNode(b, FilmNodeId(film), "film", film.title, <<film>>)
    IN  IF ~film.genres.present \/ ~film.directors.present
        THEN [b1 EXCEPT !.threw = TRUE]
        ELSE LinkGenres(LinkDirector(b1, FilmNodeId(film), film.directors.items),
                        FilmNodeId(film), film.genres.items, 1)

\* body of films.forEach for one film; reading .forEach / .length of an
\* undefined list raises a TypeError that abandons the whole pass
BuildFilm(b, film) ==
    LET b1 == AddNode(b, FilmNodeId(film), "film", film.title, <<film>>)
    IN  IF ~film.genres.present THEN [b1 EXCEPT !.threw = TRUE]
        ELSE LET b2 == LinkGenres(b1, FilmNodeId(film), film.genres.items, 1)
             IN  IF ~film.directors.present THEN [b2 EXCEPT !.threw = TRUE]
                 ELSE LinkDirector(b2, FilmNodeId(film), film.directors.items)

RECURSIVE BuildFrom(_, _, _)
BuildFrom(b, fs, i) ==
    IF i > Len(fs) \/ b.threw THEN b
    ELSE BuildFrom(BuildFilm(b, fs[i]), fs, i + 1)

BuildGraph(fs) == BuildFrom(EmptyBuild, fs, 1)

----------------------------------------------------------------------------
(* Force simulation: the body of animate, on the heap h of Node objects    *)

Range(f) == { f[i] : i \in DOMAIN f }

\* canvas.width / (window.devicePixelRatio || 1), in model units
ViewWidth == Div(canvas.w * Scale, DevicePixelRatio)
ViewHeight == Div(canvas.h * Scale, DevicePixelRatio)

\* mutant: the distance as computed, at least one model unit
DistanceUnguarded(dx, dy) == LET d == ISqrt(dx * dx + dy * dy) IN IF d = 0 THEN 1 ELSE d

\* Math.sqrt(dx * dx + dy * dy) || 1
Distance(dx, dy) == LET d == ISqrt(dx * dx + dy * dy) IN IF d = 0 THEN Scale ELSE d

\* what one simulation step did to a node object, kept for the properties:
\* the centring impulse, the repulsion and spring impulses with the peer they
\* came from (for repulsion with the distance and the force magnitude used),
\* whether the node was integrated, and the node as it entered the boundary
\* tests
NoLog == [grav |-> << >>, rep |-> << >>, spr |-> << >>, moved |-> FALSE, bin |-> << >>]

Kinematics(n) == [x |-> n.x, y |-> n.y, vx |-> n.vx, vy |-> n.vy]

\* centre gravity on node object a
CenterGravity(h, a) ==
    LET gx == Div((Div(ViewWidth, 2) - h[a].x) * centerForcePercent, 100)
        gy == Div((Div(ViewHeight, 2) - h[a].y) * centerForcePercent, 100)
    IN  [h EXCEPT ![a].vx = @ + gx, ![a].vy = @ + gy, ![a].log.grav = <<gx, gy>>]

\* mutant: only the node of the outer loop is pushed
RepelOneSided(h, a, b) ==
    LET dx == h[a].x - h[b].x
        dy == h[a].y - h[b].y
        dist == Distance(dx, dy)
        force == (repulsion * Scale * Scale * Scale) \div (dist * dist)
        fx == Div(dx * force, dist)
        fy == Div(dy * force, dist)
    IN  IF dist < repulsionCutoff * Scale
        THEN [h EXCEPT ![a].vx = @ + fx, ![a].vy = @ + fy,
                       ![a].log.rep = Append(@, [peer |-> b, fx |-> fx, fy |-> fy,
                                                 dist |-> dist, force |-> force])]
        ELSE h

\* repulsion between node objects a (outer loop) and b (inner loop)
Repel(h, a, b) ==
    LET dx == h[a].x - h[b].x
        dy == h[a].y - h[b].y
        dist == Distance(dx, dy)
        force == (repulsion * Scale * Scale * Scale) \div (dist * dist)
        fx == Div(dx * force, dist)
        fy == Div(dy * force, dist)
    IN  IF dist < repulsionCutoff * Scale
        THEN [h EXCEPT ![a].vx = @ + fx, ![a].vy = @ + fy,
                       ![b].vx = @ - fx, ![b].vy = @ - fy,
                       ![a].log.rep = Append(@, [peer |-> b, fx |-> fx, fy |-> fy,
                                                 dist |-> dist, force |-> force]),
                       ![b].log.rep = Append(@, [peer |-> a, fx |-> -fx, fy |-> -fy,
                                                 dist |-> dist, force |-> force])]
        ELSE h

\* for (let j = i + 1; j < nodes.length; j++)
RECURSIVE RepelFrom(_, _, _)
RepelFrom(h, i, j) ==
    IF j > Len(nodesRef) THEN h
    ELSE RepelFrom(Repel(h, nodesRef[i], nodesRef[j]), i, j + 1)

\* for (let i = 0; i < nodes.length; i++): the dragged node is skipped as a
RECURSIVE Forces(_, _)
Forces(h, i) ==
    IF i > Len(nodesRef) THEN h
    ELSE IF nodesRef[i] = draggingRef THEN Forces(h, i + 1)
    ELSE Forces(RepelFrom(CenterGravity(h, nodesRef[i]), i, i + 1), i + 1)

\* nodes.find(n => n.id === id): the first object with that id, or NullRef
FindNode(h, id) ==
    IF \E i \in 1..Len(nodesRef) : h[nodesRef[i]].id = id
    THEN nodesRef[CHOOSE i \in 1..Len(nodesRef) :
                     /\ h[nodesRef[i]].id = id
                     /\ \A j \in 1..(i - 1) : h[nodesRef[j]].id # id]
    ELSE NullRef

\* mutant: a spring of rest length 0, which always pulls
SpringNoRest(h, link) ==
    LET source == FindNode(h, link.source)
        target == FindNode(h, link.target)
    IN  IF source = NullRef \/ target = NullRef THEN h
        ELSE LET dx == h[target].x - h[source].x
                 dy == h[target].y - h[source].y
                 dist == Distance(dx, dy)
                 fx == Div(dx * dist * kPercent, dist * 100)
                 fy == Div(dy * dist * kPercent, dist * 100)
                 h1 == IF source # draggingRef
                       THEN [h EXCEPT ![source].vx = @ + fx, ![source].vy = @ + fy,
                                      ![source].log.spr =
                                          Append(@, [peer |-> target, fx |-> fx, fy |-> fy])]
                       ELSE h
             IN  IF target # draggingRef
                 THEN [h1 EXCEPT ![target].vx = @ - fx, ![target].vy = @ - fy,
                                 ![target].log.spr =
                                     Append(@, [peer |-> source, fx |-> -fx, fy |-> -fy])]
                 ELSE h1

\* spring force of one link
Spring(h, link) ==
    LET source == FindNode(h, link.source)
        target == FindNode(h, link.target)
    IN  IF source = NullRef \/ target = NullRef THEN h
        ELSE LET dx == h[target].x - h[source].x
                 dy == h[target].y - h[source].y
                 dist == Distance(dx, dy)
                 fx == Div(dx * (dist - springLength * Scale) * kPercent, dist * 100)
                 fy == Div(dy * (dist - springLength * Scale) * kPercent, dist * 100)
                 h1 == IF source # draggingRef
                       THEN [h EXCEPT ![source].vx = @ + fx, ![source].vy = @ + fy,
                                      ![source].log.spr =
                                          Append(@, [peer |-> target, fx |-> fx, fy |-> fy])]
                       ELSE h
             IN  IF target # draggingRef
                 THEN [h1 EXCEPT ![target].vx = @ - fx, ![target].vy = @ - fy,
                                 ![target].log.spr =
                                     Append(@, [peer |-> source, fx |-> -fx, fy |-> -fy])]
                 ELSE h1

RECURSIVE Springs(_, _)
Springs(h, i) ==
    IF i > Len(linksRef) THEN h
    ELSE Springs(Spring(h, linksRef[i]), i + 1)

\* hoveredNode?.id as the animate closure sees it
HoveredId(h) == IF hoveredNode = NullRef THEN << >> ELSE h[hoveredNode].id

\* mutant: the velocity is damped first and capped afterwards
IntegrateCapAfterDamping(n, hoveredId) ==
    LET vx1 == Div(n.vx * dampingPercent, 100)
        vy1 == Div(n.vy * dampingPercent, 100)
        v == Norm(vx1, vy1)
        capped == v > maxVelocity * Scale
        vx2 == IF capped THEN Div(vx1 * maxVelocity * Scale, v) ELSE vx1
        vy2 == IF capped THEN Div(vy1 * maxVelocity * Scale, v) ELSE vy1
        vx3 == IF n.id = hoveredId THEN Div(vx2 * hoverDampingPercent, 100) ELSE vx2
        vy3 == IF n.id = hoveredId THEN Div(vy2 * hoverDampingPercent, 100) ELSE vy2
    IN  [n EXCEPT !.vx = vx3, !.vy = vy3, !.x = @ + vx3, !.y = @ + vy3,
                  !.log.moved = TRUE]

\* cap, damping, hover damping and position update of a non-dragged node
Integrate(n, hoveredId) ==
    LET v == Norm(n.vx, n.vy)
        capped == v > maxVelocity * Scale
        vx1 == IF capped THEN Div(n.vx * maxVelocity * Scale, v) ELSE n.vx
        vy1 == IF capped THEN Div(n.vy * maxVelocity * Scale, v) ELSE n.vy
        vx2 == Div(vx1 * dampingPercent, 100)
        vy2 == Div(vy1 * dampingPercent, 100)
        vx3 == IF n.id = hoveredId THEN Div(vx2 * hoverDampingPercent, 100) ELSE vx2
        vy3 == IF n.id = hoveredId THEN Div(vy2 * hoverDampingPercent, 100) ELSE vy2
    IN  [n EXCEPT !.vx = vx3, !.vy = vy3, !.x = @ + vx3, !.y = @ + vy3,
                  !.log.moved = TRUE]

\* mutant: the boundary tests clamp the position and keep the velocity
BounceClampOnly(n) ==
    LET padding == n.radius + boundaryPadding * Scale
        n0 == [n EXCEPT !.log.bin = Kinematics(n)]
        n1 == IF n0.x < padding THEN [n0 EXCEPT !.x = padding] ELSE n0
        n2 == IF n1.x > ViewWidth - padding
              THEN [n1 EXCEPT !.x = ViewWidth - padding] ELSE n1
        n3 == IF n2.y < padding THEN [n2 EXCEPT !.y = padding] ELSE n2
    IN  IF n3.y > ViewHeight - padding
        THEN [n3 EXCEPT !.y = ViewHeight - padding] ELSE n3

\* the four boundary tests, in the order of the code
Bounce(n) ==
    LET padding == n.radius + boundaryPadding * Scale
        n0 == [n EXCEPT !.log.bin = Kinematics(n)]
        n1 == IF n0.x < padding THEN [n0 EXCEPT !.x = padding, !.vx = -@] ELSE n0
        n2 == IF n1.x > ViewWidth - padding
              THEN [n1 EXCEPT !.x = ViewWidth - padding, !.vx = -@] ELSE n1
        n3 == IF n2.y < padding THEN [n2 EXCEPT !.y = padding, !.vy = -@] ELSE n2
    IN  IF n3.y > ViewHeight - padding
        THEN [n3 EXCEPT !.y = ViewHeight - padding, !.vy = -@] ELSE n3

\* mutant: the boundary tests are skipped for the dragged node
UpdatePositionsFreeOnly(h) ==
    [o \in DOMAIN h |->
        IF o \notin Range(nodesRef) THEN h[o]
        ELSE IF o # draggingRef THEN Bounce(Integrate(h[o], HoveredId(h)))
        ELSE h[o]]

\* nodes.forEach(n => { if (n !== dragging) integrate; boundaries })
UpdatePositions(h) ==
    [o \in DOMAIN h |->
        IF o \notin Range(nodesRef) THEN h[o]
        ELSE IF o # draggingRef THEN Bounce(Integrate(h[o], HoveredId(h)))
        ELSE Bounce(h[o])]

\* one simulation step
Simulate(h) == UpdatePositions(Springs(Forces(h, 1), 1))

\* isConnected of the draw pass: an edge joins node object o and the id of
\* the hovered object
IsConnected(h, o) ==
    /\ hoveredNode # NullRef
    /\ \E i \in 1..Len(linksRef) :
          \/ linksRef[i].source = h[o].id /\ linksRef[i].target = h[hoveredNode].id
          \/ linksRef[i].target = h[o].id /\ linksRef[i].source = h[hoveredNode].id

\* the draw pass draws the label of node object o
DrawLabel(h, o) == h[o].type = "film" \/ o = hoveredNode \/ IsConnected(h, o)

\* the draw pass strokes node object o as the hovered node
DrawHighlight(h, o) == h[o].id = HoveredId(h)

\* mutant: a pointer on the rim of the hit circle counts as a hit
HitTestInclusive(h, p) ==
    LET hit(o) == (h[o].x - p.x) * (h[o].x - p.x) + (h[o].y - p.y) * (h[o].y - p.y)
                    <= (h[o].radius + hitPadding * Scale) * (h[o].radius + hitPadding * Scale)
    IN  IF \E i \in 1..Len(nodesRef) : hit(nodesRef[i])
        THEN nodesRef[CHOOSE i \in 1..Len(nodesRef) :
                         /\ hit(nodesRef[i])
                         /\ \A j \in 1..(i - 1) : ~hit(nodesRef[j])]
        ELSE NullRef

\* hit test used by the pointer handlers: first node within radius + 10
HitTest(h, p) ==
    LET hit(o) == (h[o].x - p.x) * (h[o].x - p.x) + (h[o].y - p.y) * (h[o].y - p.y)
                    < (h[o].radius + hitPadding * Scale) * (h[o].radius + hitPadding * Scale)
    IN  IF \E i \in 1..Len(nodesRef) : hit(nodesRef[i])
        THEN nodesRef[CHOOSE i \in 1..Len(nodesRef) :
                         /\ hit(nodesRef[i])
                         /\ \A j \in 1..(i - 1) : ~hit(nodesRef[j])]
        ELSE NullRef

----------------------------------------------------------------------------
(* Dashboard page (src/pages/Dashboard.tsx): the films state and the film  *)
(* requests of fetchFilms, answered by the server in any order.            *)

Tabs == { "discover", "watchlist" }
ViewModes == { "grid", "graph" }
Sorts == { "-rating", "rating" }
Titles == { "", "x" }

\* const size = viewMode === 'graph' ? 50 : 20
graphPageSize == 50
gridPageSize == 20
PageSize(mode) == IF mode = "graph" THEN graphPageSize ELSE gridPageSize

\* the page of films the server holds for a request
Result(req) == [sort |-> req.sort, title |-> req.title, size |-> req.size, p |-> req.p]

\* fetchFilms(reset) up to its await, called by a render whose state is
\* tab, mode, order: setLoading(true) and the request
FetchFilms(reset, mode, order) ==
    /\ Len(issued) < MaxRequests
    /\ loading' = TRUE
    /\ issued' = Append(issued, [reset |-> reset, p |-> IF reset THEN 1 ELSE page,
                                 size |-> PageSize(mode), sort |-> order,
                                 title |-> searchFilters, outcome |-> "pending"])
    /\ inflight' = inflight \cup {Len(issued) + 1}

\* the effect on [activeTab, sort, viewMode]: setPage(1) and, on the
\* discover tab, fetchFilms(true)
TabEffect(tab, mode, order) ==
    IF tab = "discover"
    THEN /\ FetchFilms(TRUE, mode, order)
         /\ page' = 1
    ELSE /\ page' = 1
         /\ UNCHANGED << loading, issued, inflight >>

\* the first render of the page and its effects
InitDashboard ==
    /\ activeTab = "discover"
    /\ viewMode = "grid"
    /\ sort = "-rating"
    /\ searchFilters = ""
    /\ page = 1
    /\ dashFilms = << >>
    /\ hasMore = TRUE
    /\ loading = TRUE
    /\ issued = << [reset |-> TRUE, p |-> 1, size |-> gridPageSize, sort |-> "-rating",
                    title |-> "", outcome |-> "pending"] >>
    /\ inflight = {1}

\* onClick={() => setActiveTab(tab)}
SetActiveTab(tab) ==
    /\ tab # activeTab
    /\ activeTab' = tab
    /\ TabEffect(tab, viewMode, sort)
    /\ UNCHANGED << viewMode, sort, searchFilters, dashFilms, hasMore >>

\* onChange={(e) => setSort(e.target.value)}
SetSort(order) ==
    /\ order # sort
    /\ sort' = order
    /\ TabEffect(activeTab, viewMode, order)
    /\ UNCHANGED << activeTab, viewMode, searchFilters, dashFilms, hasMore >>

\* onClick={() => setViewMode(mode)}
SetViewMode(mode) ==
    /\ activeTab = "discover"
    /\ mode # viewMode
    /\ viewMode' = mode
    /\ TabEffect(activeTab, mode, sort)
    /\ UNCHANGED << activeTab, sort, searchFilters, dashFilms, hasMore >>

\* handleFilterChange on the title field
FilterChange(title) ==
    /\ title # searchFilters
    /\ searchFilters' = title
    /\ UNCHANGED << activeTab, viewMode, sort, page, dashFilms, hasMore, loading,
                    inflight, issued >>

\* handleSearchSubmit
SearchSubmit ==
    /\ IF activeTab # "discover"
       THEN /\ activeTab' = "discover"
            /\ TabEffect("discover", viewMode, sort)
       ELSE /\ FetchFilms(TRUE, viewMode, sort)
            /\ UNCHANGED << activeTab, page >>
    /\ UNCHANGED << viewMode, sort, searchFilters, dashFilms, hasMore >>

\* the Load More button of the grid: fetchFilms(false)
LoadMore ==
    /\ activeTab = "discover"
    /\ viewMode = "grid"
    /\ hasMore
    /\ dashFilms # << >>
    /\ FetchFilms(FALSE, viewMode, sort)
    /\ UNCHANGED << activeTab, viewMode, sort, searchFilters, page, dashFilms, hasMore >>

\* the rest of fetchFilms after api.getFilms has resolved for request r with
\* a full or a short page
Response(r, full) ==
    /\ r \in inflight
    /\ inflight' = inflight \ {r}
    /\ issued' = [issued EXCEPT ![r].outcome = "ok"]
    /\ dashFilms' = IF issued[r].reset THEN <<Result(issued[r])>>
                                       ELSE Append(dashFilms, Result(issued[r]))
    /\ hasMore' = full
    /\ page' = issued[r].p + 1
    /\ loading' = FALSE
    /\ UNCHANGED << activeTab, viewMode, sort, searchFilters >>

\* the catch and finally of fetchFilms after api.getFilms has rejected
ResponseError(r) ==
    /\ r \in inflight
    /\ inflight' = inflight \ {r}
    /\ issued' = [issued EXCEPT ![r].outcome = "failed"]
    /\ loading' = FALSE
    /\ UNCHANGED << activeTab, viewMode, sort, searchFilters, page, dashFilms, hasMore >>

----------------------------------------------------------------------------
(* AI insight (src/services/api.ts geminiService, FilmCard.handleAiAsk,     *)
(* FilmDetails.handleAiAsk)                                                *)

\* the components that hold an insight button: two film cards and the
\* details page
AiViews == { <<"card", 1>>, <<"card", 2>>, <<"details", 1>> }

\* aiInsight before any insight has arrived
NoInsight == "null"

\* how the remote generateContent call ends
GeminiOutcomes == { "text", "empty", "error" }

\* what getFilmInsight resolves to once the remote call has ended
GetFilmInsight(outcome) ==
    IF outcome = "error" THEN "AI insight temporarily unavailable."
    ELSE IF outcome = "empty" THEN "Could not generate insight."
    ELSE "insight"

InitInsight(key) ==
    /\ apiKey = key
    /\ aiInsight = [v \in AiViews |-> NoInsight]
    /\ loadingAi = [v \in AiViews |-> FALSE]
    /\ aiCall = [v \in AiViews |-> "none"]

\* handleAiAsk up to its await: without a key getFilmInsight throws before
\* its try block, the awaited promise rejects and the handler ends there
HandleAiAsk(v) ==
    /\ aiInsight[v] = NoInsight
    /\ aiCall[v] # "pending"
    /\ loadingAi' = [loadingAi EXCEPT ![v] = TRUE]
    /\ aiCall' = [aiCall EXCEPT ![v] = IF apiKey THEN "pending" ELSE "rejected"]
    /\ UNCHANGED << apiKey, aiInsight >>

\* the rest of handleAiAsk after getFilmInsight has resolved
InsightSettled(v, outcome) ==
    /\ aiCall[v] = "pending"
    /\ aiInsight' = [aiInsight EXCEPT ![v] = GetFilmInsight(outcome)]
    /\ loadingAi' = [loadingAi EXCEPT ![v] = FALSE]
    /\ aiCall' = [aiCall EXCEPT ![v] = "none"]
    /\ UNCHANGED apiKey

----------------------------------------------------------------------------
(* Component life cycle, effects and handlers                              *)

\* what the history variable event records: a pointer event with its
\* position, the nodes dragged and hovered when it arrived and (for the events that
\* hit-test the nodes as they are) the nodes as they were, or a simulation step
\* with the state it read, the log of what it did to every node, the nodes
\* whose label and whose hover outline it drew, and the node released by the
\* pointer event just before it
NoEvent == [kind |-> "none"]

Pointer(kind, p) ==
    [kind |-> kind, x |-> p.x, y |-> p.y, was |-> draggingRef,
     hov |-> hoveredNode, nodes |-> nodesRef,
     before |-> IF kind \in {"down", "dblclick"}
                THEN [o \in Range(nodesRef) |-> heap[o]] ELSE << >>]

Step ==
    LET sim == Simulate(heap)
    IN  IF ~mounted THEN NoEvent
        ELSE [kind |-> "step", nodes |-> nodesRef, links |-> linksRef,
              dragged |-> draggingRef, hoveredId |-> HoveredId(heap),
              view |-> [w |-> ViewWidth, h |-> ViewHeight],
              pre |-> [o \in Range(nodesRef) |-> heap[o]],
              post |-> [o \in Range(nodesRef) |-> Kinematics(sim[o])],
              log |-> [o \in Range(nodesRef) |-> sim[o].log],
              labels |-> { o \in Range(nodesRef) : DrawLabel(sim, o) },
              highlights |-> { o \in Range(nodesRef) : DrawHighlight(sim, o) },
              released |-> IF event.kind \in {"up", "leave"}
                           THEN event.was ELSE NullRef]

\* a resize notification with the content rectangle it carried, the canvas
\* it found and the simulation state it found
Resized(rect) ==
    [kind |-> "resize", rect |-> rect, from |-> canvas, was |-> draggingRef,
     hov |-> hoveredNode, nodes |-> nodesRef, links |-> linksRef,
     before |-> [o \in Range(nodesRef) |-> heap[o]]]

NoFrame == [ran |-> FALSE, nodesGen |-> 0, linksGen |-> 0,
            nodeIds |-> {}, links |-> << >>]

\* objects still referenced by the component; everything else is garbage
Live(h, roots) == [o \in (DOMAIN h \cap roots) |-> h[o]]

\* a handle requestAnimationFrame has not handed out among P
Fresh(P) == CHOOSE n \in 1..(Cardinality(P) + 1) : n \notin P

\* mutant: the cleanup of the loop effect cancels nothing
LoopCleanupNoCancel(P, r) == P

\* cleanup of the loop effect: cancelAnimationFrame(requestRef.current!)
LoopCleanup(P, r) == P \ {r}

\* a Node object as addNode and the centred layout leave it
NewNode(proto, rect, j) ==
    [id |-> proto.id, type |-> proto.type, label |-> proto.label,
     x |-> Div(rect.w * Scale, 2) + j[1], y |-> Div(rect.h * Scale, 2) + j[2],
     vx |-> 0, vy |-> 0,
     radius |-> proto.radius, color |-> proto.color, data |-> proto.data,
     log |-> NoLog]

\* mutant: the node collection is replaced, the edge collection is not
CommitNodesOnly(g, rect, place) ==
    LET fresh == [i \in 1..Len(g.nodes) |-> <<gen + 1, i>>]
        kept == Live(heap, {draggingRef, hoveredNode})
    IN  /\ nodesRef' = fresh
        /\ linksRef' = linksRef
        /\ built' = [nodes |-> gen + 1, links |-> built.links]
        /\ gen' = gen + 1
        /\ heap' = [o \in DOMAIN kept \cup Range(fresh) |->
                      IF o \in Range(fresh)
                      THEN NewNode(g.nodes[o[2]], rect, place[o[2]])
                      ELSE kept[o]]

\* nodesRef.current = nodes; linksRef.current = links; centred layout
Commit(g, rect, place) ==
    LET fresh == [i \in 1..Len(g.nodes) |-> <<gen + 1, i>>]
        kept == Live(heap, {draggingRef, hoveredNode})
    IN  /\ nodesRef' = fresh
        /\ linksRef' = g.links
        /\ built' = [nodes |-> gen + 1, links |-> gen + 1]
        /\ gen' = gen + 1
        /\ heap' = [o \in DOMAIN kept \cup Range(fresh) |->
                      IF o \in Range(fresh)
                      THEN NewNode(g.nodes[o[2]], rect, place[o[2]])
                      ELSE kept[o]]

InitGraph ==
    /\ mounted = FALSE
    /\ films = << >>
    /\ heap = << >>
    /\ nodesRef = << >>
    /\ linksRef = << >>
    /\ built = [nodes |-> 0, links |-> 0]
    /\ gen = 0
    /\ draggingRef = NullRef
    /\ hoveredNode = NullRef
    /\ requestRef = 0
    /\ pending = {}
    /\ canvas = DefaultCanvas
    /\ container = [w |-> 400, h |-> 600]
    /\ pointerOver = FALSE
    /\ buildError = FALSE
    /\ frames = 0
    /\ frame = NoFrame
    /\ event = NoEvent
    /\ location = << >>

\* the page as loaded, with an API key configured
Init == InitGraph /\ InitDashboard /\ InitInsight(TRUE)

\* the instance is discarded: its refs and state go, the cleanup of the loop
\* effect runs (an error thrown by an effect unmounts the tree the same way)
TearDown ==
    /\ mounted' = FALSE
    /\ films' = << >>
    /\ heap' = << >>
    /\ nodesRef' = << >>
    /\ linksRef' = << >>
    /\ built' = [nodes |-> 0, links |-> 0]
    /\ draggingRef' = NullRef
    /\ hoveredNode' = NullRef
    /\ requestRef' = 0
    /\ pending' = LoopCleanup(pending, requestRef)
    /\ canvas' = DefaultCanvas
    /\ pointerOver' = FALSE
    /\ frame' = NoFrame
    /\ UNCHANGED << gen, container, frames >>

\* first render with films = fs: the [films] effect, then the loop effect
Mount(fs, rect, place) ==
    /\ ~mounted
    /\ gen < MaxBuilds
    /\ IF BuildGraph(fs).threw
       THEN /\ buildError' = TRUE
            /\ UNCHANGED << mounted, films, heap, nodesRef, linksRef, built, gen,
                            draggingRef, hoveredNode, requestRef, pending, canvas,
                            container, pointerOver, frames, frame, location >>
       ELSE /\ mounted' = TRUE
            /\ films' = fs
            /\ container' = rect
            /\ Commit(BuildGraph(fs), rect, place)
            /\ requestRef' = Fresh(pending)
            /\ pending' = pending \cup {Fresh(pending)}
            /\ buildError' = FALSE
            /\ location' = << >>
            /\ UNCHANGED << draggingRef, hoveredNode, canvas, pointerOver, frames, frame >>

\* the view leaves the page
Unmount ==
    /\ mounted
    /\ TearDown
    /\ UNCHANGED << buildError, location >>

\* a render with a new films prop: the [films] effect runs again
Rebuild(fs, place) ==
    /\ mounted
    /\ gen < MaxBuilds
    /\ IF BuildGraph(fs).threw
       THEN /\ buildError' = TRUE
            /\ TearDown
       ELSE /\ films' = fs
            /\ Commit(BuildGraph(fs), container, place)
            /\ buildError' = FALSE
            /\ UNCHANGED << mounted, draggingRef, hoveredNode, requestRef, pending,
                            canvas, container, pointerOver, frames, frame >>
    /\ UNCHANGED location

\* the host calls back request id: one run of animate
Frame(id, ctxOk) ==
    /\ id \in pending
    /\ frames < MaxFrames
    /\ frames' = frames + 1
    /\ IF ~mounted \/ ~ctxOk
       THEN /\ pending' = pending \ {id}
            /\ frame' = NoFrame
            /\ UNCHANGED << heap, requestRef >>
       ELSE LET sim == Simulate(heap)
            IN  /\ heap' = [o \in DOMAIN sim |-> [sim[o] EXCEPT !.log = NoLog]]
                /\ requestRef' = Fresh(pending \ {id})
                /\ pending' = (pending \ {id}) \cup {Fresh(pending \ {id})}
                /\ frame' = [ran |-> TRUE, nodesGen |-> built.nodes,
                             linksGen |-> built.links,
                             nodeIds |-> { heap[o].id : o \in Range(nodesRef) },
                             links |-> linksRef]
    /\ UNCHANGED << mounted, films, nodesRef, linksRef, built, gen, draggingRef,
                    hoveredNode, canvas, container, pointerOver, buildError, location >>

\* mutant: pointer-down grabs the node without stopping it
MouseDownKeepVelocity(p) ==
    /\ mounted
    /\ pointerOver
    /\ LET node == HitTest(heap, p)
       IN  IF node # NullRef
           THEN /\ draggingRef' = node
                /\ heap' = Live(heap, Range(nodesRef) \cup {node, hoveredNode})
           ELSE UNCHANGED << draggingRef, heap >>
    /\ UNCHANGED << mounted, films, nodesRef, linksRef, built, gen, hoveredNode,
                    requestRef, pending, canvas, container, pointerOver, buildError,
                    frames, frame, location >>

\* handleMouseDown
MouseDown(p) ==
    /\ mounted
    /\ pointerOver
    /\ LET node == HitTest(heap, p)
       IN  IF node # NullRef
           THEN /\ draggingRef' = node
                /\ heap' = Live([heap EXCEPT ![node].vx = 0, ![node].vy = 0],
                                Range(nodesRef) \cup {node, hoveredNode})
           ELSE UNCHANGED << draggingRef, heap >>
    /\ UNCHANGED << mounted, films, nodesRef, linksRef, built, gen, hoveredNode,
                    requestRef, pending, canvas, container, pointerOver, buildError,
                    frames, frame, location >>

\* mutant: the loop effect requests a frame without its cleanup having
\* cancelled the outstanding one
MouseMoveNoCancel(p) ==
    /\ mounted
    /\ pointerOver' = TRUE
    /\ LET h1 == IF draggingRef # NullRef
                 THEN [heap EXCEPT ![draggingRef].x = p.x, ![draggingRef].y = p.y,
                                   ![draggingRef].vx = 0, ![draggingRef].vy = 0]
                 ELSE heap
           node == HitTest(h1, p)
       IN  /\ hoveredNode' = node
           /\ heap' = Live(h1, Range(nodesRef) \cup {draggingRef, node})
           /\ IF node # hoveredNode
              THEN /\ requestRef' = Fresh(pending)
                   /\ pending' = pending \cup {Fresh(pending)}
              ELSE UNCHANGED << requestRef, pending >>
    /\ UNCHANGED << mounted, films, nodesRef, linksRef, built, gen, draggingRef,
                    canvas, container, buildError, frames, frame, location >>

\* handleMouseMove, with the re-render and the loop effect that
\* setHoveredNode triggers when the hovered object changes
MouseMove(p) ==
    /\ mounted
    /\ pointerOver' = TRUE
    /\ LET h1 == IF draggingRef # NullRef
                 THEN [heap EXCEPT ![draggingRef].x = p.x, ![draggingRef].y = p.y,
                                   ![draggingRef].vx = 0, ![draggingRef].vy = 0]
                 ELSE heap
           node == HitTest(h1, p)
           cancelled == LoopCleanup(pending, requestRef)
       IN  /\ hoveredNode' = node
           /\ heap' = Live(h1, Range(nodesRef) \cup {draggingRef, node})
           /\ IF node # hoveredNode
              THEN /\ requestRef' = Fresh(cancelled)
                   /\ pending' = cancelled \cup {Fresh(cancelled)}
              ELSE UNCHANGED << requestRef, pending >>
    /\ UNCHANGED << mounted, films, nodesRef, linksRef, built, gen, draggingRef,
                    canvas, container, buildError, frames, frame, location >>

\* mutant: pointer-up leaves the drag in place
MouseUpKeepDrag ==
    /\ mounted
    /\ pointerOver
    /\ heap' = Live(heap, Range(nodesRef) \cup {draggingRef, hoveredNode})
    /\ UNCHANGED << mounted, films, nodesRef, linksRef, built, gen, hoveredNode,
                    requestRef, pending, canvas, container, pointerOver, buildError,
                    frames, frame, location, draggingRef >>

\* handleMouseUp bound to onMouseUp
MouseUp ==
    /\ mounted
    /\ pointerOver
    /\ draggingRef' = NullRef
    /\ heap' = Live(heap, Range(nodesRef) \cup {hoveredNode})
    /\ UNCHANGED << mounted, films, nodesRef, linksRef, built, gen, hoveredNode,
                    requestRef, pending, canvas, container, pointerOver, buildError,
                    frames, frame, location >>

\* handleMouseUp bound to onMouseLeave
MouseLeave ==
    /\ mounted
    /\ pointerOver
    /\ pointerOver' = FALSE
    /\ draggingRef' = NullRef
    /\ heap' = Live(heap, Range(nodesRef) \cup {hoveredNode})
    /\ UNCHANGED << mounted, films, nodesRef, linksRef, built, gen, hoveredNode,
                    requestRef, pending, canvas, container, buildError, frames, frame,
                    location >>

\* mutant: a double-click on a node that is no film node grabs it
DoubleClickAlsoGrabs(p) ==
    /\ mounted
    /\ pointerOver
    /\ LET node == HitTest(heap, p)
       IN  IF node # NullRef /\ heap[node].type = "film" /\ heap[node].data # << >>
           THEN /\ location' = <<"film", heap[node].data[1].id>>
                /\ TearDown
           ELSE /\ draggingRef' = IF node # NullRef THEN node ELSE draggingRef
                /\ UNCHANGED << mounted, films, heap, nodesRef, linksRef, built, gen,
                                hoveredNode, requestRef, pending, canvas,
                                container, pointerOver, frames, frame, location >>
    /\ UNCHANGED buildError

\* handleDoubleClick; navigate() leaves the page that holds the view, so the
\* instance is discarded with the same event
DoubleClick(p) ==
    /\ mounted
    /\ pointerOver
    /\ LET node == HitTest(heap, p)
       IN  IF node # NullRef /\ heap[node].type = "film" /\ heap[node].data # << >>
           THEN /\ location' = <<"film", heap[node].data[1].id>>
                /\ TearDown
           ELSE UNCHANGED << mounted, films, heap, nodesRef, linksRef, built, gen,
                             draggingRef, hoveredNode, requestRef, pending, canvas,
                             container, pointerOver, frames, frame, location >>
    /\ UNCHANGED buildError

\* mutant: a resize notification also ends the drag
ResizeDropsDrag(rect) ==
    /\ mounted
    /\ container' = rect
    /\ canvas' = [w |-> rect.w * DevicePixelRatio, h |-> rect.h * DevicePixelRatio,
                  cssW |-> rect.w, cssH |-> rect.h]
    /\ draggingRef' = NullRef
    /\ UNCHANGED << mounted, films, heap, nodesRef, linksRef, built, gen,
                    hoveredNode, requestRef, pending, pointerOver, buildError,
                    frames, frame, location >>

\* the ResizeObserver callback with contentRect = rect
Resize(rect) ==
    /\ mounted
    /\ container' = rect
    /\ canvas' = [w |-> rect.w * DevicePixelRatio, h |-> rect.h * DevicePixelRatio,
                  cssW |-> rect.w, cssH |-> rect.h]
    /\ UNCHANGED << mounted, films, heap, nodesRef, linksRef, built, gen, draggingRef,
                    hoveredNode, requestRef, pending, pointerOver, buildError,
                    frames, frame, location >>

Next ==
    \/ /\ \E fs \in FilmLists, rect \in ContainerSizes :
              \E place \in Placements(Len(BuildGraph(fs).nodes)) : Mount(fs, rect, place)
       /\ UNCHANGED << event, dashVars, aiVars >>
    \/ /\ Unmount
       /\ UNCHANGED << event, dashVars, aiVars >>
    \/ /\ \E fs \in FilmLists : \E place \in Placements(Len(BuildGraph(fs).nodes)) : Rebuild(fs, place)
       /\ UNCHANGED << event, dashVars, aiVars >>
    \/ /\ \E id \in pending, ctxOk \in BOOLEAN : Frame(id, ctxOk)
       /\ UNCHANGED << event, dashVars, aiVars >>
    \/ /\ \E p \in MousePoints : MouseDown(p)
       /\ UNCHANGED << event, dashVars, aiVars >>
    \/ /\ \E p \in MousePoints : MouseMove(p)
       /\ UNCHANGED << event, dashVars, aiVars >>
    \/ /\ MouseUp
       /\ UNCHANGED << event, dashVars, aiVars >>
    \/ /\ MouseLeave
       /\ UNCHANGED << event, dashVars, aiVars >>
    \/ /\ \E rect \in ContainerSizes : Resize(rect)
       /\ UNCHANGED << event, dashVars, aiVars >>

Spec == Init /\ [][Next]_vars

----------------------------------------------------------------------------
(* Builder specification: the same component driven with lists of several  *)
(* films (shared genres, shared first directors, a film id that occurs     *)
(* twice, the two-film example of the builder's description) and with      *)
(* pointer events, without animation callbacks.                            *)

Ex1 == [id |-> 1, title |-> "A", rating |-> 8,
        genres |-> Some(<<"Drama">>), directors |-> Some(<<"X">>)]
Ex2 == [id |-> 2, title |-> "B", rating |-> 5,
        genres |-> Some(<<"Drama">>), directors |-> Some(<<"Y">>)]
ExampleFilms == <<Ex1, Ex2>>

\* a second record of film id 1 with another rating, title, genre and director
FilmA2 == [id |-> 1, title |-> "A2", rating |-> 3,
           genres |-> Some(<<"Crime">>), directors |-> Some(<<"Y">>)]
\* three directors; shares its first director with FilmA
FilmE == [id |-> 5, title |-> "E", rating |-> 6,
          genres |-> Some(<<"Drama", "Crime">>), directors |-> Some(<<"X", "Y", "Z">>)]

BuildLists == { << >>, ExampleFilms, <<FilmA, FilmB, FilmA2>>, <<FilmE, FilmA>>,
                <<FilmB, FilmE>>, <<FilmA, FilmC>> }

NextBuild ==
    \/ /\ \E fs \in BuildLists, rect \in ContainerSizes :
              \E place \in Placements(Len(BuildGraph(fs).nodes)) : Mount(fs, rect, place)
       /\ UNCHANGED << event, dashVars, aiVars >>
    \/ /\ Unmount
       /\ UNCHANGED << event, dashVars, aiVars >>
    \/ /\ \E fs \in BuildLists : \E place \in Placements(Len(BuildGraph(fs).nodes)) : Rebuild(fs, place)
       /\ UNCHANGED << event, dashVars, aiVars >>
    \/ /\ \E p \in MousePoints : MouseDown(p)
       /\ UNCHANGED << event, dashVars, aiVars >>
    \/ /\ \E p \in MousePoints : MouseMove(p)
       /\ UNCHANGED << event, dashVars, aiVars >>
    \/ /\ MouseUp
       /\ UNCHANGED << event, dashVars, aiVars >>
    \/ /\ MouseLeave
       /\ UNCHANGED << event, dashVars, aiVars >>
    \/ /\ \E rect \in ContainerSizes : Resize(rect)
       /\ UNCHANGED << event, dashVars, aiVars >>

SpecBuild == Init /\ [][NextBuild]_vars

----------------------------------------------------------------------------
(* Simulation specification: one film, pointer events, animation callbacks *)
(* and resizes, with the history variable event recording every pointer    *)
(* event and every simulation step.                                        *)

SimLists == { <<FilmA>> }

\* the layout of Placements that sets the n nodes 50 px apart along x
SimPlacements(n) == { place \in Placements(n) : \A i \in 1..n : place[i][1] = (i - 1) * 50 * Scale }

NextSim ==
    \/ /\ \E fs \in SimLists, rect \in ContainerSizes :
              \E place \in SimPlacements(Len(BuildGraph(fs).nodes)) : Mount(fs, rect, place)
       /\ event' = NoEvent /\ UNCHANGED << dashVars, aiVars >>
    \/ /\ \E id \in pending : Frame(id, TRUE)
       /\ event' = Step /\ UNCHANGED << dashVars, aiVars >>
    \/ \E p \in MousePoints : MouseDown(p) /\ event' = Pointer("down", p) /\ UNCHANGED << dashVars, aiVars >>
    \/ \E p \in MousePoints : MouseMove(p) /\ event' = Pointer("move", p) /\ UNCHANGED << dashVars, aiVars >>
    \/ MouseUp /\ event' = Pointer("up", [x |-> 0, y |-> 0]) /\ UNCHANGED << dashVars, aiVars >>
    \/ MouseLeave /\ event' = Pointer("leave", [x |-> 0, y |-> 0]) /\ UNCHANGED << dashVars, aiVars >>
    \/ \E rect \in ContainerSizes : Resize(rect) /\ event' = Resized(rect) /\ UNCHANGED << dashVars, aiVars >>

SpecSim == Init /\ [][NextSim]_vars

----------------------------------------------------------------------------
(* Boundary specification: one film, animation callbacks and resizes, to   *)
(* a container narrower than twice the boundary padding of any node and to *)
(* one whose right edge lies left of the nodes of the centred layout.      *)

BounceSizes == { [w |-> 30, h |-> 600], [w |-> 150, h |-> 500] }

NextBounce ==
    \/ /\ \E fs \in SimLists, rect \in ContainerSizes :
              \E place \in Placements(Len(BuildGraph(fs).nodes)) : Mount(fs, rect, place)
       /\ event' = NoEvent /\ UNCHANGED << dashVars, aiVars >>
    \/ /\ \E id \in pending : Frame(id, TRUE)
       /\ event' = Step /\ UNCHANGED << dashVars, aiVars >>
    \/ /\ \E rect \in BounceSizes : Resize(rect)
       /\ event' = NoEvent /\ UNCHANGED << dashVars, aiVars >>
    \/ /\ Unmount
       /\ event' = NoEvent /\ UNCHANGED << dashVars, aiVars >>

SpecBounce == Init /\ [][NextBounce]_vars

----------------------------------------------------------------------------
(* Close-range specification: one film whose nodes the centred layout puts *)
(* on one point or a tenth of a pixel apart, so that one step accumulates  *)
(* repulsion far above the terminal velocity; animation callbacks, resizes *)
(* and a pointer that hovers and drags at the centre.                      *)

\* layouts of n nodes: all on the centre, one model unit apart along x, or
\* the first two on the centre and the others 50 px to its right
NearPlacements(n) == { [i \in 1..n |-> <<0, 0>>], [i \in 1..n |-> <<i - 1, 0>>],
                       [i \in 1..n |-> <<IF i <= 2 THEN 0 ELSE 50 * Scale, 0>>] }

\* the centre of the 400 x 600 container
NearPoints == { [x |-> 200 * Scale, y |-> 300 * Scale] }

NextNear ==
    \/ /\ \E fs \in SimLists, rect \in ContainerSizes :
              \E place \in NearPlacements(Len(BuildGraph(fs).nodes)) : Mount(fs, rect, place)
       /\ event' = NoEvent /\ UNCHANGED << dashVars, aiVars >>
    \/ /\ \E id \in pending : Frame(id, TRUE)
       /\ event' = Step /\ UNCHANGED << dashVars, aiVars >>
    \/ \E p \in NearPoints : MouseDown(p) /\ event' = Pointer("down", p) /\ UNCHANGED << dashVars, aiVars >>
    \/ \E p \in NearPoints : MouseMove(p) /\ event' = Pointer("move", p) /\ UNCHANGED << dashVars, aiVars >>
    \/ MouseUp /\ event' = Pointer("up", [x |-> 0, y |-> 0]) /\ UNCHANGED << dashVars, aiVars >>
    \/ \E rect \in ContainerSizes : Resize(rect) /\ event' = Resized(rect) /\ UNCHANGED << dashVars, aiVars >>

SpecNear == Init /\ [][NextNear]_vars

----------------------------------------------------------------------------
(* Drawing specification: one film, pointer-moves that change the hovered   *)
(* node, rebuilds and animation callbacks, whose draw pass the history     *)
(* variable event records.                                                 *)

NextDraw ==
    \/ /\ \E fs \in SimLists, rect \in ContainerSizes :
              \E place \in Placements(Len(BuildGraph(fs).nodes)) : Mount(fs, rect, place)
       /\ event' = NoEvent /\ UNCHANGED << dashVars, aiVars >>
    \/ /\ \E fs \in SimLists :
              \E place \in Placements(Len(BuildGraph(fs).nodes)) : Rebuild(fs, place)
       /\ event' = NoEvent /\ UNCHANGED << dashVars, aiVars >>
    \/ /\ \E id \in pending : Frame(id, TRUE)
       /\ event' = Step /\ UNCHANGED << dashVars, aiVars >>
    \/ \E p \in MousePoints : MouseMove(p) /\ event' = Pointer("move", p) /\ UNCHANGED << dashVars, aiVars >>
    \/ /\ Unmount
       /\ event' = NoEvent /\ UNCHANGED << dashVars, aiVars >>

SpecDraw == Init /\ [][NextDraw]_vars

----------------------------------------------------------------------------
(* Pointer specification: one film and pointer events, double-clicks       *)
(* included, on a node, on the rim of its hit circle and away from every   *)
(* node, recorded in the history variable event; no animation callbacks.   *)

\* the centre of the 400 x 600 container, a point at distance radius + 10
\* from it for the film node of FilmA, and the points of MousePoints
PointerPoints ==
    MousePoints \cup
    { [x |-> 200 * Scale, y |-> 300 * Scale],
      [x |-> 200 * Scale + NodeRadius("film", <<FilmA>>) + hitPadding * Scale,
       y |-> 300 * Scale] }

NextPointer ==
    \/ /\ \E fs \in SimLists, rect \in ContainerSizes :
              \E place \in Placements(Len(BuildGraph(fs).nodes)) : Mount(fs, rect, place)
       /\ event' = NoEvent /\ UNCHANGED << dashVars, aiVars >>
    \/ \E p \in PointerPoints : MouseDown(p) /\ event' = Pointer("down", p) /\ UNCHANGED << dashVars, aiVars >>
    \/ \E p \in PointerPoints : MouseMove(p) /\ event' = Pointer("move", p) /\ UNCHANGED << dashVars, aiVars >>
    \/ MouseUp /\ event' = Pointer("up", [x |-> 0, y |-> 0]) /\ UNCHANGED << dashVars, aiVars >>
    \/ MouseLeave /\ event' = Pointer("leave", [x |-> 0, y |-> 0]) /\ UNCHANGED << dashVars, aiVars >>
    \/ \E p \in PointerPoints : DoubleClick(p) /\ event' = Pointer("dblclick", p) /\ UNCHANGED << dashVars, aiVars >>

SpecPointer == Init /\ [][NextPointer]_vars

----------------------------------------------------------------------------
(* Dashboard specification: tab, sort, view-mode, filter and load-more     *)
(* actions and the responses of the server, in any order.                  *)

NextDashboard ==
    \/ /\ \E tab \in Tabs : SetActiveTab(tab)
       /\ UNCHANGED << graphVars, event, aiVars >>
    \/ /\ \E order \in Sorts : SetSort(order)
       /\ UNCHANGED << graphVars, event, aiVars >>
    \/ /\ \E mode \in ViewModes : SetViewMode(mode)
       /\ UNCHANGED << graphVars, event, aiVars >>
    \/ /\ \E title \in Titles : FilterChange(title)
       /\ UNCHANGED << graphVars, event, aiVars >>
    \/ /\ SearchSubmit
       /\ UNCHANGED << graphVars, event, aiVars >>
    \/ /\ LoadMore
       /\ UNCHANGED << graphVars, event, aiVars >>
    \/ /\ \E r \in inflight, full \in BOOLEAN : Response(r, full)
       /\ UNCHANGED << graphVars, event, aiVars >>
    \/ /\ \E r \in inflight : ResponseError(r)
       /\ UNCHANGED << graphVars, event, aiVars >>

SpecDashboard == Init /\ [][NextDashboard]_vars

----------------------------------------------------------------------------
(* Insight specification: the insight buttons with and without an API key; *)
(* the remote call, once made, eventually ends.                            *)

InitKey == InitGraph /\ InitDashboard /\ \E key \in BOOLEAN : InitInsight(key)

NextInsight ==
    \/ /\ \E v \in AiViews : HandleAiAsk(v)
       /\ UNCHANGED << graphVars, event, dashVars >>
    \/ /\ \E v \in AiViews, outcome \in GeminiOutcomes : InsightSettled(v, outcome)
       /\ UNCHANGED << graphVars, event, dashVars >>

SpecInsight == InitKey /\ [][NextInsight]_vars

SpecInsightFair ==
    /\ InitKey
    /\ [][NextInsight]_vars
    /\ \A v \in AiViews : WF_aiVars(\E outcome \in GeminiOutcomes : InsightSettled(v, outcome))

----------------------------------------------------------------------------
(* Properties                                                              *)

NodeIds == { heap[o].id : o \in Range(nodesRef) }

\* number of positions of sequence s that hold e
Count(s, e) == Cardinality({ i \in 1..Len(s) : s[i] = e })

\* C1: while a node is the dragged node, its velocity is zero after every
\* simulation step (and after every other step of the program).
DraggedVelocityZero ==
    draggingRef # NullRef =>
        heap[draggingRef].vx = 0 /\ heap[draggingRef].vy = 0

\* C2: a simulation step (an animation callback) never changes the position
\* of the node that is dragged while it runs.
DraggedPositionUntouchedByStep ==
    [][ (frames' # frames /\ draggingRef # NullRef) =>
            /\ heap'[draggingRef].x = heap[draggingRef].x
            /\ heap'[draggingRef].y = heap[draggingRef].y ]_vars

\* C3: every animation callback that runs a pass reads a node collection and
\* an edge collection of the same build, so every edge it reads has both
\* endpoint ids in the node collection it reads.
FrameReadsOneBuild ==
    frame.ran =>
        /\ frame.nodesGen = frame.linksGen
        /\ \A i \in 1..Len(frame.links) :
              /\ frame.links[i].source \in frame.nodeIds
              /\ frame.links[i].target \in frame.nodeIds

\* a pass has run on a graph installed by a rebuild
FrameAfterRebuild ==
    frame.ran /\ frame.nodesGen >= 2 /\ Len(frame.links) > 0

\* C4: while the view is mounted a frame request is pending after every
\* animation callback, skipped frames included.
MountedLoopHasRequest == mounted => pending # {}

\* C5: after a teardown no frame request is pending and no animation callback
\* runs; a mount starts exactly one loop.
LoopCancelledOnTeardown ==
    /\ [](~mounted => pending = {})
    /\ [][ /\ (~mounted => frames' = frames)
           /\ (~mounted /\ mounted' => Cardinality(pending') = 1) ]_vars

\* the view was torn down after its loop had run passes
TornDownAfterFrames == ~mounted /\ frames > 0 /\ gen > 0

\* C6: the dragged node, if any, is a member of the current node collection.
DraggedNodeInGraph ==
    draggingRef # NullRef => draggingRef \in Range(nodesRef)

\* C7: once the pointer has left the canvas no node is hovered.
HoverClearedOnLeave == ~pointerOver => hoveredNode = NullRef

\* C8: a build pass never raises, whatever lists the films carry.
BuildNeverFails == ~buildError

\* C9 as stated: one film record contributes each (film, genre) pair and the
\* (film, first director) pair at most once, so with one record per film id
\* no edge occurs twice.
EdgePairAtMostOnce ==
    (\A i, j \in 1..Len(films) : films[i].id = films[j].id => i = j) =>
        \A i, j \in 1..Len(linksRef) : linksRef[i] = linksRef[j] => i = j

\* C9 amended: every film record contributes one edge per entry of its genre
\* list (a string repeated k times gives k equal edges) and one edge to its
\* first director if it has one.
EdgePerGenreEntry ==
    mounted =>
        \A n \in 1..Len(films) :
           LET same == { m \in 1..Len(films) : films[m].id = films[n].id }
               entries(e) ==
                   UNION { { <<m, i>> : i \in { i \in 1..Len(films[m].genres.items) :
                                                  films[m].genres.items[i] = e } } :
                           m \in same }
           IN  /\ \A e \in Range(films[n].genres.items) :
                     Count(linksRef, [source |-> FilmNodeId(films[n]),
                                      target |-> GenreNodeId(e)])
                       = Cardinality(entries(e))
               /\ Len(films[n].directors.items) > 0 =>
                     Count(linksRef, [source |-> FilmNodeId(films[n]),
                                      target |-> DirectorNodeId(films[n].directors.items[1])])
                       = Cardinality({ m \in same :
                                         /\ Len(films[m].directors.items) > 0
                                         /\ films[m].directors.items[1]
                                              = films[n].directors.items[1] })

\* a graph built from a film whose genre list repeats a string
RepeatedGenreBuilt ==
    /\ mounted
    /\ \E n \in 1..Len(films) :
          \E i, j \in 1..Len(films[n].genres.items) :
             i # j /\ films[n].genres.items[i] = films[n].genres.items[j]
    /\ Len(linksRef) >= 2

\* C10: every edge's source and target are ids of nodes of the current node
\* collection.
EdgeEndpointsPresent ==
    \A i \in 1..Len(linksRef) :
       linksRef[i].source \in NodeIds /\ linksRef[i].target \in NodeIds

\* a rebuilt graph with edges, after frames and during a drag
RebuiltGraphInUse ==
    /\ built.nodes >= 2
    /\ Len(linksRef) > 0
    /\ frames > 0
    /\ draggingRef \in Range(nodesRef)

----------------------------------------------------------------------------
(* Properties of the builder, checked under SpecBuild                      *)

\* positions of the node collection whose node has id
NodesWithId(id) == { i \in 1..Len(nodesRef) : heap[nodesRef[i]].id = id }

\* edges of the edge collection that point at node id
LinksTo(id) == { i \in 1..Len(linksRef) : linksRef[i].target = id }

\* the first record of the film list with the id of record n
FirstRecord(n) ==
    films[CHOOSE m \in 1..Len(films) :
             /\ films[m].id = films[n].id
             /\ \A k \in 1..(m - 1) : films[k].id # films[n].id]

\* no two nodes share an id; a genre or first-director string gets exactly
\* one node; a film id seen again keeps what its first record gave the node
NodesDeduplicated ==
    /\ \A i, j \in 1..Len(nodesRef) :
          heap[nodesRef[i]].id = heap[nodesRef[j]].id => i = j
    /\ \A n \in 1..Len(films) :
          /\ \A e \in Range(films[n].genres.items) :
                Cardinality(NodesWithId(GenreNodeId(e))) = 1
          /\ Len(films[n].directors.items) > 0 =>
                Cardinality(NodesWithId(DirectorNodeId(films[n].directors.items[1]))) = 1
          /\ \A i \in NodesWithId(FilmNodeId(films[n])) :
                /\ heap[nodesRef[i]].data = <<FirstRecord(n)>>
                /\ heap[nodesRef[i]].label = FirstRecord(n).title
                /\ heap[nodesRef[i]].color = "#0ea5e9"
                /\ heap[nodesRef[i]].radius
                     = baseRadius * Scale
                         + Div(ratingTenths * FirstRecord(n).rating * Scale, 10)

\* C11 as stated: node ids are unique, and the one node of a genre string is
\* referenced by exactly one edge per film record that lists the string (the
\* one node of a first-director string by one edge per record that has it
\* first), a re-seen id keeping the attributes of its first creation.
SharedNodeOneEdgePerFilm ==
    mounted =>
        /\ NodesDeduplicated
        /\ \A n \in 1..Len(films) :
              /\ \A e \in Range(films[n].genres.items) :
                    Cardinality(LinksTo(GenreNodeId(e)))
                      = Cardinality({ m \in 1..Len(films) :
                                        e \in Range(films[m].genres.items) })
              /\ Len(films[n].directors.items) > 0 =>
                    Cardinality(LinksTo(DirectorNodeId(films[n].directors.items[1])))
                      = Cardinality({ m \in 1..Len(films) :
                                        /\ Len(films[m].directors.items) > 0
                                        /\ films[m].directors.items[1]
                                             = films[n].directors.items[1] })

\* C11 amended: node ids are unique, and the one node of a genre string is
\* referenced by one edge per genre-list entry that names the string, which
\* is one edge per sharing film record when no record repeats the string (the
\* one node of a first-director string by one edge per record that has it
\* first); a re-seen id keeps the attributes of its first creation.
SharedNodeOneEdgePerEntry ==
    mounted =>
        /\ NodesDeduplicated
        /\ \A n \in 1..Len(films) :
              /\ \A e \in Range(films[n].genres.items) :
                    /\ Cardinality(LinksTo(GenreNodeId(e)))
                         = Cardinality(UNION { { <<m, i>> :
                                 i \in { i \in 1..Len(films[m].genres.items) :
                                           films[m].genres.items[i] = e } } :
                               m \in 1..Len(films) })
                    /\ (\A m \in 1..Len(films) :
                           Count(films[m].genres.items, e) <= 1) =>
                          Cardinality(LinksTo(GenreNodeId(e)))
                            = Cardinality({ m \in 1..Len(films) :
                                              e \in Range(films[m].genres.items) })
              /\ Len(films[n].directors.items) > 0 =>
                    Cardinality(LinksTo(DirectorNodeId(films[n].directors.items[1])))
                      = Cardinality({ m \in 1..Len(films) :
                                        /\ Len(films[m].directors.items) > 0
                                        /\ films[m].directors.items[1]
                                             = films[n].directors.items[1] })

\* a graph built from two films that share a genre and from two records of
\* one film id with different ratings
SharedGenreAndRepeatedIdBuilt ==
    /\ mounted
    /\ \E m, n \in 1..Len(films) :
          /\ films[m].id # films[n].id
          /\ Range(films[m].genres.items) \cap Range(films[n].genres.items) # {}
    /\ \E m, n \in 1..Len(films) :
          /\ m < n
          /\ films[m].id = films[n].id
          /\ films[m].rating # films[n].rating
          /\ Cardinality(NodesWithId(FilmNodeId(films[n]))) = 1

\* C12: every film record with at least one director yields exactly one
\* film-to-director edge, whose target is the node of its first director;
\* directors after the first create neither nodes nor edges.
FirstDirectorOnly ==
    mounted =>
        LET firsts == { films[m].directors.items[1] :
                          m \in { m \in 1..Len(films) : Len(films[m].directors.items) > 0 } }
        IN  /\ \A n \in 1..Len(films) :
                  LET fromFilm == { i \in 1..Len(linksRef) :
                                      /\ linksRef[i].source = FilmNodeId(films[n])
                                      /\ linksRef[i].target[1] = "d" }
                      records == { m \in 1..Len(films) :
                                     /\ films[m].id = films[n].id
                                     /\ Len(films[m].directors.items) > 0 }
                  IN  /\ Cardinality(fromFilm) = Cardinality(records)
                      /\ \A i \in fromFilm :
                            \E m \in records :
                               linksRef[i].target
                                 = DirectorNodeId(films[m].directors.items[1])
            /\ \A i \in 1..Len(nodesRef) :
                  heap[nodesRef[i]].type = "director" =>
                     /\ heap[nodesRef[i]].label \in firsts
                     /\ heap[nodesRef[i]].id = DirectorNodeId(heap[nodesRef[i]].label)

\* a graph built from a film with three directors, the last of whom is no
\* film's first director
ThreeDirectorsBuilt ==
    /\ mounted
    /\ \E n \in 1..Len(films) :
          /\ Len(films[n].directors.items) = 3
          /\ \A m \in 1..Len(films) :
                Len(films[m].directors.items) > 0 =>
                   films[m].directors.items[1] # films[n].directors.items[3]
          /\ NodesWithId(DirectorNodeId(films[n].directors.items[3])) = {}
          /\ NodesWithId(DirectorNodeId(films[n].directors.items[1])) # {}

\* reference builder: the ids a film visits, in visiting order
VisitedIds(film) ==
    <<FilmNodeId(film)>>
      \o [i \in 1..Len(film.genres.items) |-> GenreNodeId(film.genres.items[i])]
      \o (IF Len(film.directors.items) > 0
          THEN <<DirectorNodeId(film.directors.items[1])>> ELSE << >>)

RECURSIVE AllVisitedIds(_, _)
AllVisitedIds(fs, i) ==
    IF i > Len(fs) THEN << >> ELSE VisitedIds(fs[i]) \o AllVisitedIds(fs, i + 1)

\* the entries of s that no earlier entry equals, in order
RECURSIVE FirstSeen(_, _)
FirstSeen(s, i) ==
    IF i > Len(s) THEN << >>
    ELSE (IF \A j \in 1..(i - 1) : s[j] # s[i] THEN <<s[i]>> ELSE << >>)
           \o FirstSeen(s, i + 1)

\* reference builder: the edges of one film, genres first, then first director
FilmLinks(film) ==
    [i \in 1..Len(film.genres.items) |->
        [source |-> FilmNodeId(film), target |-> GenreNodeId(film.genres.items[i])]]
      \o (IF Len(film.directors.items) > 0
          THEN << [source |-> FilmNodeId(film),
                   target |-> DirectorNodeId(film.directors.items[1])] >>
          ELSE << >>)

RECURSIVE AllFilmLinks(_, _)
AllFilmLinks(fs, i) ==
    IF i > Len(fs) THEN << >> ELSE FilmLinks(fs[i]) \o AllFilmLinks(fs, i + 1)

\* C13: the node collection is the list of distinct ids among f-<id>,
\* g-<genre>, d-<firstDirector> in first-seen order, the edge sequence is,
\* film by film, one edge per genre entry followed by one edge to the first
\* director; the two-film example gives the 5 nodes f-1, f-2, g-Drama, d-X,
\* d-Y and 4 edges.
BuilderMatchesReference ==
    mounted =>
        /\ [i \in 1..Len(nodesRef) |-> heap[nodesRef[i]].id]
             = FirstSeen(AllVisitedIds(films, 1), 1)
        /\ linksRef = AllFilmLinks(films, 1)
        /\ films = ExampleFilms =>
              /\ Len(nodesRef) = 5
              /\ NodeIds = { <<"f", "1">>, <<"f", "2">>, <<"g", "Drama">>,
                             <<"d", "X">>, <<"d", "Y">> }
              /\ Len(linksRef) = 4

\* the graph of the two-film example is installed
ExampleGraphBuilt ==
    mounted /\ films = ExampleFilms /\ Len(nodesRef) = 5 /\ Len(linksRef) = 4

\* C14: a film node's radius is 5 + 0.8 x rating, so of two film nodes the
\* one with the smaller rating has the strictly smaller radius; genre nodes
\* have radius 7 and director nodes radius 6.
RadiusMonotone ==
    \A a, b \in Range(nodesRef) :
       /\ heap[a].type = "film" =>
             heap[a].radius
               = baseRadius * Scale
                   + Div(ratingTenths * heap[a].data[1].rating * Scale, 10)
       /\ heap[a].type = "genre" => heap[a].radius = genreRadius * Scale
       /\ heap[a].type = "director" => heap[a].radius = directorRadius * Scale
       /\ (/\ heap[a].type = "film"
           /\ heap[b].type = "film"
           /\ heap[a].data[1].rating < heap[b].data[1].rating) =>
             heap[a].radius < heap[b].radius

\* two film nodes of different ratings, a genre node and a director node are
\* in the graph
FilmsOfDifferentRatingBuilt ==
    /\ \E a, b \in Range(nodesRef) :
          /\ heap[a].type = "film"
          /\ heap[b].type = "film"
          /\ heap[a].data[1].rating < heap[b].data[1].rating
    /\ \E a, b \in Range(nodesRef) :
          heap[a].type = "genre" /\ heap[b].type = "director"

----------------------------------------------------------------------------
(* Properties of one simulation step, checked under SpecSim on the record  *)
(* the history variable event holds after an animation callback            *)

\* the impulses in log that came from peer
From(log, peer) == SelectSeq(log, LAMBDA e : e.peer = peer)

\* squared distance of two recorded nodes
Dist2(a, b) == (a.x - b.x) * (a.x - b.x) + (a.y - b.y) * (a.y - b.y)

\* the nodes of the recorded step that were not dragged
Free == Range(event.nodes) \ {event.dragged}

\* C15: two non-dragged nodes closer than the cutoff receive, in one step,
\* repulsion impulses that are equal in magnitude and opposite in direction;
\* two nodes at or beyond the cutoff receive no repulsion from each other.
RepulsionSymmetric ==
    event.kind = "step" =>
        \A a, b \in Free :
           a # b =>
              LET ab == From(event.log[a].rep, b)
                  ba == From(event.log[b].rep, a)
              IN  IF Dist2(event.pre[a], event.pre[b])
                       < (repulsionCutoff * Scale) * (repulsionCutoff * Scale)
                  THEN /\ Len(ab) = 1
                       /\ Len(ba) = 1
                       /\ ab[1].fx + ba[1].fx = 0
                       /\ ab[1].fy + ba[1].fy = 0
                  ELSE ab = << >> /\ ba = << >>

\* a step in which one free pair got a non-zero repulsion impulse and another
\* free pair, at the cutoff distance or beyond, got none
RepulsionNearAndFar ==
    /\ event.kind = "step"
    /\ \E a, b \in Free :
          /\ a # b
          /\ From(event.log[a].rep, b) # << >>
          /\ From(event.log[a].rep, b)[1].fx # 0
    /\ \E a, b \in Free :
          /\ a # b
          /\ Dist2(event.pre[a], event.pre[b])
               >= (repulsionCutoff * Scale) * (repulsionCutoff * Scale)

\* the first node of the recorded step with id, as nodes.find returns it
Found(id) ==
    event.nodes[CHOOSE i \in 1..Len(event.nodes) :
                   /\ event.pre[event.nodes[i]].id = id
                   /\ \A j \in 1..(i - 1) : event.pre[event.nodes[j]].id # id]

\* C16: an edge whose endpoints are exactly 100 apart gives both endpoints a
\* zero spring impulse; above 100 the impulse on an endpoint points toward
\* the other endpoint, below 100 away from it; two non-dragged endpoints get
\* equal and opposite impulses, one pair per edge that joins them.
SpringLaw ==
    event.kind = "step" =>
        /\ \A a \in Free :
              \A k \in 1..Len(event.log[a].spr) :
                 LET e == event.log[a].spr[k]
                     dx == event.pre[e.peer].x - event.pre[a].x
                     dy == event.pre[e.peer].y - event.pre[a].y
                     d2 == dx * dx + dy * dy
                     rest == springLength * Scale
                 IN  /\ d2 = rest * rest => e.fx = 0 /\ e.fy = 0
                     /\ d2 > rest * rest => e.fx * dx >= 0 /\ e.fy * dy >= 0
                     /\ d2 >= (rest + 2 * Scale) * (rest + 2 * Scale) =>
                           e.fx * dx + e.fy * dy > 0
                     /\ d2 < rest * rest => e.fx * dx <= 0 /\ e.fy * dy <= 0
                     /\ (d2 > 0 /\ d2 <= (rest - 2 * Scale) * (rest - 2 * Scale)) =>
                           e.fx * dx + e.fy * dy < 0
        /\ \A k \in 1..Len(event.links) :
              LET a == Found(event.links[k].source)
                  b == Found(event.links[k].target)
                  ab == From(event.log[a].spr, b)
                  ba == From(event.log[b].spr, a)
                  joining == { j \in 1..Len(event.links) :
                                 {Found(event.links[j].source),
                                  Found(event.links[j].target)} = {a, b} }
              IN  (a \in Free /\ b \in Free) =>
                     /\ Len(ab) = Cardinality(joining)
                     /\ Len(ba) = Cardinality(joining)
                     /\ \A j \in 1..Len(ab) :
                           ab[j].fx + ba[j].fx = 0 /\ ab[j].fy + ba[j].fy = 0

\* a step with one edge exactly at rest length between free endpoints and
\* another edge that gave a non-zero impulse
SpringAtRestAndStretched ==
    /\ event.kind = "step"
    /\ \E k \in 1..Len(event.links) :
          /\ Found(event.links[k].source) \in Free
          /\ Found(event.links[k].target) \in Free
          /\ Dist2(event.pre[Found(event.links[k].source)],
                   event.pre[Found(event.links[k].target)])
               = (springLength * Scale) * (springLength * Scale)
    /\ \E a \in Free :
          \E k \in 1..Len(event.log[a].spr) : event.log[a].spr[k].fx # 0

\* the boundary rule along one axis: v the coordinate and u the velocity as
\* they entered the boundary tests, lo and hi the bounds, v1 and u1 the
\* coordinate and velocity after the step
BounceRule(v, u, lo, hi, v1, u1) ==
    /\ v > hi => v1 = hi /\ u1 = -u
    /\ v < lo => v1 = lo /\ u1 = -u
    /\ (lo <= v /\ v <= hi) => v1 = v /\ u1 = u

\* C17 as stated: a node whose x after integration exceeds width - (radius +
\* 10) ends the step at exactly width - radius - 10 with its x-velocity
\* negated, one below radius + 10 at exactly radius + 10 with its x-velocity
\* negated, and likewise for y; a coordinate inside its bounds is left with
\* its velocity as integration produced them.
BounceAlways ==
    event.kind = "step" =>
        \A o \in Range(event.nodes) :
           LET pad == event.pre[o].radius + boundaryPadding * Scale
               in == event.log[o].bin
               out == event.post[o]
           IN  event.log[o].moved =>
                  /\ BounceRule(in.x, in.vx, pad, event.view.w - pad, out.x, out.vx)
                  /\ BounceRule(in.y, in.vy, pad, event.view.h - pad, out.y, out.vy)

\* C17 amended: the same, along an axis on which the viewport is at least
\* 2 x (radius + 10) long for the node.
BounceInWideViewport ==
    event.kind = "step" =>
        \A o \in Range(event.nodes) :
           LET pad == event.pre[o].radius + boundaryPadding * Scale
               in == event.log[o].bin
               out == event.post[o]
           IN  event.log[o].moved =>
                  /\ event.view.w >= 2 * pad =>
                        BounceRule(in.x, in.vx, pad, event.view.w - pad, out.x, out.vx)
                  /\ event.view.h >= 2 * pad =>
                        BounceRule(in.y, in.vy, pad, event.view.h - pad, out.y, out.vy)

\* a step in which a moving node crossed the right bound of a viewport wide
\* enough for it while its y stayed inside the bounds
BouncedOffRightBound ==
    /\ event.kind = "step"
    /\ \E o \in Range(event.nodes) :
          LET pad == event.pre[o].radius + boundaryPadding * Scale
              in == event.log[o].bin
          IN  /\ event.log[o].moved
              /\ event.view.w >= 2 * pad
              /\ in.x > event.view.w - pad
              /\ in.vx # 0
              /\ in.vy # 0
              /\ pad <= in.y
              /\ in.y <= event.view.h - pad
              /\ event.post[o].x = event.view.w - pad

----------------------------------------------------------------------------
(* Properties of the pointer handlers                                      *)

\* the hit-test rule: the first node of order, in heap h, whose squared
\* distance to (x, y) is strictly less than (radius + 10)^2, or NullRef
HitRule(h, order, x, y) ==
    LET hits == { i \in 1..Len(order) :
                    (h[order[i]].x - x) * (h[order[i]].x - x)
                      + (h[order[i]].y - y) * (h[order[i]].y - y)
                      < (h[order[i]].radius + hitPadding * Scale)
                          * (h[order[i]].radius + hitPadding * Scale) }
    IN  IF hits = {} THEN NullRef
        ELSE order[CHOOSE i \in hits : \A j \in hits : i <= j]

\* C18: pointer-down, pointer-move and double-click all act on the first
\* node in collection order whose squared distance to the pointer is
\* strictly less than (radius + 10)^2, and on no node if there is none; a
\* pointer exactly at distance radius + 10 does not hit.
SameHitRule ==
    /\ (event.kind = "down" /\ HitRule(event.before, event.nodes, event.x, event.y) # NullRef) =>
          draggingRef = HitRule(event.before, event.nodes, event.x, event.y)
    /\ (event.kind = "down" /\ HitRule(event.before, event.nodes, event.x, event.y) = NullRef) =>
          draggingRef = event.was
    /\ event.kind = "move" =>
          hoveredNode = HitRule(heap, nodesRef, event.x, event.y)
    /\ event.kind = "dblclick" =>
          LET node == HitRule(event.before, event.nodes, event.x, event.y)
          IN  IF node # NullRef /\ event.before[node].type = "film"
              THEN location = <<"film", event.before[node].data[1].id>>
              ELSE location = << >>

\* a pointer-move exactly on the rim of the first node's hit circle, of
\* which no other node is in reach: nothing is hovered
PointerOnRim ==
    /\ event.kind = "move"
    /\ Len(nodesRef) > 0
    /\ (heap[nodesRef[1]].x - event.x) * (heap[nodesRef[1]].x - event.x)
         + (heap[nodesRef[1]].y - event.y) * (heap[nodesRef[1]].y - event.y)
         = (heap[nodesRef[1]].radius + hitPadding * Scale)
             * (heap[nodesRef[1]].radius + hitPadding * Scale)
    /\ hoveredNode = NullRef

\* C19: a pointer-down that hits a node makes exactly that node the dragged
\* node and sets its velocity to zero, changing nothing else of any node; a
\* pointer-down that hits no node leaves the drag state and every node
\* unchanged.
PointerDownTransition ==
    event.kind = "down" =>
        LET node == HitRule(event.before, event.nodes, event.x, event.y)
        IN  IF node # NullRef
            THEN /\ draggingRef = node
                 /\ \A o \in Range(nodesRef) :
                       heap[o] = IF o = node
                                 THEN [event.before[o] EXCEPT !.vx = 0, !.vy = 0]
                                 ELSE event.before[o]
            ELSE /\ draggingRef = event.was
                 /\ \A o \in Range(nodesRef) : heap[o] = event.before[o]

\* a pointer-down has grabbed a node that was moving
MovingNodeGrabbed ==
    /\ event.kind = "down"
    /\ draggingRef # NullRef
    /\ draggingRef # event.was
    /\ event.before[draggingRef].vx # 0

\* C20: after a pointer-up or a pointer-leave no node is dragged, and in the
\* simulation step that follows the released node, like every other node,
\* receives the centring impulse and is integrated.
ReleasedNodeRejoins ==
    /\ event.kind \in {"up", "leave"} => draggingRef = NullRef
    /\ (event.kind = "step" /\ event.released # NullRef) =>
          /\ event.dragged = NullRef
          /\ \A o \in Range(event.nodes) :
                /\ event.log[o].moved
                /\ event.log[o].grav
                     = << Div((Div(event.view.w, 2) - event.pre[o].x)
                                * centerForcePercent, 100),
                          Div((Div(event.view.h, 2) - event.pre[o].y)
                                * centerForcePercent, 100) >>

\* the step right after the release of a dragged node has run
SteppedAfterRelease ==
    /\ event.kind = "step"
    /\ event.released \in Range(event.nodes)
    /\ event.log[event.released].moved
    /\ event.post[event.released].x # event.pre[event.released].x

\* C21: a double-click requests navigation exactly when its hit test returns
\* a film node, and then to the film id of that node's payload; a
\* double-click on a genre or director node or on empty space requests
\* nothing and leaves the dragged node, the hovered node and every node as
\* they were.
DoubleClickNavigates ==
    event.kind = "dblclick" =>
        LET node == HitRule(event.before, event.nodes, event.x, event.y)
        IN  IF node # NullRef /\ event.before[node].type = "film"
            THEN location = <<"film", event.before[node].data[1].id>>
            ELSE /\ location = << >>
                 /\ mounted
                 /\ draggingRef = event.was
                 /\ hoveredNode = event.hov
                 /\ nodesRef = event.nodes
                 /\ \A o \in Range(nodesRef) : heap[o] = event.before[o]

\* a double-click on a film node that lay under the pointer together with
\* a later node of another kind has requested the film's page
NavigatedToFilm ==
    /\ event.kind = "dblclick"
    /\ location = <<"film", FilmA.id>>
    /\ \E o \in Range(event.nodes) :
          /\ event.before[o].type # "film"
          /\ Dist2(event.before[o], [x |-> event.x, y |-> event.y])
               < (event.before[o].radius + hitPadding * Scale)
                   * (event.before[o].radius + hitPadding * Scale)

\* C22: a resize notification sets the canvas's CSS size to the content
\* rectangle and its backing size to that size times the device pixel
\* ratio, and changes nothing else: the node and edge collections, every
\* node's position and velocity, the dragged node and the hovered node are
\* as it found them.
ResizeFrameCondition ==
    event.kind = "resize" =>
        /\ canvas = [w |-> event.rect.w * DevicePixelRatio,
                     h |-> event.rect.h * DevicePixelRatio,
                     cssW |-> event.rect.w, cssH |-> event.rect.h]
        /\ nodesRef = event.nodes
        /\ linksRef = event.links
        /\ draggingRef = event.was
        /\ hoveredNode = event.hov
        /\ \A o \in Range(nodesRef) : heap[o] = event.before[o]

\* a resize that changed the canvas arrived during a drag, with a node
\* hovered and another node in motion
ResizedDuringDrag ==
    /\ event.kind = "resize"
    /\ event.from # canvas
    /\ draggingRef \in Range(nodesRef)
    /\ hoveredNode # NullRef
    /\ \E o \in Range(nodesRef) : heap[o].vx # 0

\* C23: in one step every non-dragged node closer than the cutoff to the
\* dragged node receives the repulsion impulse from it, whether the dragged
\* node comes before or after it in the node collection.
DraggedRepelsEveryNearNode ==
    (event.kind = "step" /\ event.dragged \in Range(event.nodes)) =>
        \A a \in Free :
           Dist2(event.pre[a], event.pre[event.dragged])
             < (repulsionCutoff * Scale) * (repulsionCutoff * Scale) =>
               Len(From(event.log[a].rep, event.dragged)) = 1

\* C24: in every step the velocity added to the position of a non-dragged
\* node has magnitude at most 15 x 0.85 (15 x 0.85 x 0.1 for a node with the
\* hovered id), whatever was accumulated: the cap comes before the damping
\* and the position update.  The cap is met to the resolution of the
\* arithmetic, one model unit.
TerminalVelocity ==
    event.kind = "step" =>
        \A o \in Free :
           LET in == event.log[o].bin
               cap == maxVelocity * Scale + 1
           IN  /\ event.log[o].moved
               /\ in.x = event.pre[o].x + in.vx
               /\ in.y = event.pre[o].y + in.vy
               /\ 10000 * (in.vx * in.vx + in.vy * in.vy)
                     <= (dampingPercent * cap) * (dampingPercent * cap)
               /\ event.pre[o].id = event.hoveredId =>
                     10000 * (in.vx * in.vx + in.vy * in.vy)
                       <= Div(dampingPercent * hoverDampingPercent * cap, 100)
                            * Div(dampingPercent * hoverDampingPercent * cap, 100)

\* a step in which a node entered integration a hundred times faster than
\* the terminal velocity and left it moving, and in which the hovered
\* node was integrated too
CappedFromFarAbove ==
    /\ event.kind = "step"
    /\ \E o \in Free :
          /\ event.log[o].rep # << >>
          /\ Abs(event.log[o].grav[1]
                   + event.log[o].rep[1].fx) > 100 * maxVelocity * Scale
          /\ 2 * Abs(event.log[o].bin.vx) > maxVelocity * Scale
    /\ \E o \in Free : event.pre[o].id = event.hoveredId

\* C25 as stated: the distance used in the repulsion formula is at least 1
\* for every pair of node positions, coincident or arbitrarily close, so
\* the impulse of one pair never exceeds the coefficient 1500.
RepulsionDistanceFloored ==
    event.kind = "step" =>
        \A o \in Range(event.nodes) :
           \A k \in 1..Len(event.log[o].rep) :
              /\ event.log[o].rep[k].dist >= Scale
              /\ event.log[o].rep[k].force <= repulsion * Scale

\* C25 amended: for two coincident nodes the distance used in the
\* repulsion formula is 1 instead of 0 and the pair's impulse is zero; for
\* two nodes 1 or more apart the distance used is at least 1 and the
\* impulse at most the coefficient 1500; the step completes for every pair.
ZeroDistanceGuarded ==
    event.kind = "step" =>
        \A a \in Free :
           \A k \in 1..Len(event.log[a].rep) :
              LET e == event.log[a].rep[k]
                  d2 == Dist2(event.pre[a], event.pre[e.peer])
              IN  /\ e.dist > 0
                  /\ d2 = 0 => e.dist = Scale /\ e.fx = 0 /\ e.fy = 0
                  /\ d2 >= Scale * Scale =>
                        e.dist >= Scale /\ e.force <= repulsion * Scale

\* a step over a coincident pair and over a pair at least 1 apart that got
\* a non-zero impulse
CoincidentPairStepped ==
    /\ event.kind = "step"
    /\ \E a \in Free :
          \E k \in 1..Len(event.log[a].rep) :
             Dist2(event.pre[a], event.pre[event.log[a].rep[k].peer]) = 0
    /\ \E a \in Free :
          \E k \in 1..Len(event.log[a].rep) :
             /\ Dist2(event.pre[a], event.pre[event.log[a].rep[k].peer]) >= Scale * Scale
             /\ event.log[a].rep[k].fx # 0

\* C26: in every rendered frame a node's label is drawn exactly when the
\* node is a film node, or its id is the hovered node's id, or an edge joins
\* its id and the hovered node's id; also in frames after a rebuild in which
\* a new node has the hovered id.
LabelRule ==
    event.kind = "step" =>
        \A o \in Range(event.nodes) :
           o \in event.labels <=>
              \/ event.pre[o].type = "film"
              \/ event.pre[o].id = event.hoveredId
              \/ \E i \in 1..Len(event.links) :
                    {event.links[i].source, event.links[i].target}
                      = {event.pre[o].id, event.hoveredId}

----------------------------------------------------------------------------
(* Properties of the Dashboard page and of the insight buttons             *)

\* the last reset request sent, as an index of issued
LastReset == CHOOSE r \in 1..Len(issued) :
                /\ issued[r].reset
                /\ \A q \in (r + 1)..Len(issued) : ~issued[q].reset

\* C29: once no film request is in flight, the displayed list starts with
\* the page of the most recently sent reset request, if that request was
\* answered, followed only by pages of load-more requests sent after it;
\* never with the page of an older request.
FilmListFresh ==
    (inflight = {} /\ issued[LastReset].outcome = "ok") =>
        /\ dashFilms # << >>
        /\ dashFilms[1] = Result(issued[LastReset])
        /\ \A i \in 2..Len(dashFilms) :
              \E q \in (LastReset + 1)..Len(issued) : dashFilms[i] = Result(issued[q])

\* C30: after an insight is asked for, the loading flag of that card or page
\* eventually returns to false, whether the call succeeds, fails remotely or
\* no API key is configured.
InsightLoadingEnds ==
    \A v \in AiViews : [](loadingAi[v] => <>(~loadingAi[v]))

====
